---- MODULE Spec2Model ----
(***************************************************************************)
(* Hospital queue registration (src/app.py): the departments and patients  *)
(* tables, the queue metric functions and the request handlers that read   *)
(* and write them.                                                         *)
(*                                                                         *)
(* A string is a sequence of symbols; the symbol " " is whitespace and     *)
(* every other symbol stands for a run of non-whitespace text, so that     *)
(* str.strip() is modelled by what it removes.                             *)
(***************************************************************************)
EXTENDS Integers, Sequences, FiniteSets, TLC

VARIABLES departments, patients, pc, local, resp

vars == <<departments, patients, pc, local, resp>>

(* ------------------------------ bounds -------------------------------- *)

\* Registrations admitted in one run of the server taking one request at a
\* time (rows of the patients table).
MaxPatients == 3

\* Registrations admitted in one run of the threaded server.
MaxThreaded == 2

\* The largest position calculate_waiting_time is applied to.
MaxPosition == 5

\* The largest count the crowd level functions are applied to.
MaxCount == 90

\* The request threads that can be inside register at the same time: two are
\* what the race on the queue number takes.
Workers == {1, 2}

(* ------------------------------ values -------------------------------- *)

\* Python's None, for an absent patient_id and an undefined position.
None == -1

WS == " "

\* request.form values offered for 'name' (absent is the default '').
NameInputs == { <<>>, <<WS>>, <<WS, "Alice", WS>> }

\* request.form values offered for 'department' (absent is the default '').
DepartmentInputs ==
    { <<>>, <<"Pharmacy / Medicine Pickup">>,
      <<WS, "Doctor Consultation", WS>>, <<"Cardiology">> }

\* The rows init_db inserts into an empty departments table.
DefaultDepartments ==
    << [id |-> 1, name |-> <<"Doctor Consultation">>,
        average_service_time |-> 15,
        description |-> "General physician consultation"],
       [id |-> 2, name |-> <<"Pharmacy / Medicine Pickup">>,
        average_service_time |-> 5,
        description |-> "Collect prescribed medicines"],
       [id |-> 3, name |-> <<"Blood Test / Laboratory">>,
        average_service_time |-> 10,
        description |-> "Blood tests and lab work"],
       [id |-> 4, name |-> <<"Radiology / Scanning (X-ray, MRI, CT)">>,
        average_service_time |-> 20,
        description |-> "Medical imaging services"],
       [id |-> 5, name |-> <<"Medical Report Collection">>,
        average_service_time |-> 3,
        description |-> "Collect test reports and documents"] >>

(* ------------------------------ strings ------------------------------- *)

RECURSIVE lstrip(_)
lstrip(s) ==
    IF s # <<>> /\ Head(s) = WS THEN lstrip(Tail(s)) ELSE s

RECURSIVE rstrip(_)
rstrip(s) ==
    IF s # <<>> /\ s[Len(s)] = WS THEN rstrip(SubSeq(s, 1, Len(s) - 1)) ELSE s

\* str.strip()
strip(s) == rstrip(lstrip(s))

(* ------------------------------ tables -------------------------------- *)

\* Patient(name=, department=, queue_number=) as inserted into table P:
\* the next row id, the column defaults status='waiting' and timestamp (the
\* insert's place in the order of inserts).
Patient(P, name, department, queue_number) ==
    [id |-> Len(P) + 1, name |-> name, department |-> department,
     queue_number |-> queue_number, timestamp |-> Len(P) + 1,
     status |-> "waiting"]

\* Department.query.filter_by(name=department_name).first()
DepartmentByName(D, department_name) ==
    LET hits == {i \in DOMAIN D : D[i].name = department_name}
    IN  IF hits = {} THEN <<>>
        ELSE <<D[CHOOSE i \in hits : \A j \in hits : i <= j]>>

\* Patient.query.filter_by(department=..., status='waiting').count(),
\* counted row by row.
RECURSIVE WaitingCountUpTo(_, _, _)
WaitingCountUpTo(P, department_name, n) ==
    IF n = 0 THEN 0
    ELSE WaitingCountUpTo(P, department_name, n - 1)
         + (IF P[n].department = department_name /\ P[n].status = "waiting"
            THEN 1 ELSE 0)

WaitingCount(P, department_name) == WaitingCountUpTo(P, department_name, Len(P))

(* -------------------------- queue management -------------------------- *)

\* A variant that numbers from the count of waiting rows instead of the largest
\* waiting queue_number.
NextQueueNumberByCount(P, department_name) ==
    Cardinality({i \in DOMAIN P : /\ P[i].department = department_name
                                  /\ P[i].status = "waiting"}) + 1

get_next_queue_number(P, department_name) ==
    LET waiting == {i \in DOMAIN P : /\ P[i].department = department_name
                                     /\ P[i].status = "waiting"}
    IN  IF waiting # {}
        THEN LET last_patient ==
                   CHOOSE i \in waiting :
                       \A j \in waiting : P[j].queue_number <= P[i].queue_number
             IN  P[last_patient].queue_number + 1
        ELSE 1

\* The rows ahead of row patient_id among the first n rows of P.
RECURSIVE AheadUpTo(_, _, _)
AheadUpTo(P, patient_id, n) ==
    IF n = 0 THEN 0
    ELSE AheadUpTo(P, patient_id, n - 1)
         + (IF /\ P[n].department = P[patient_id].department
               /\ P[n].status = "waiting"
               /\ P[n].queue_number < P[patient_id].queue_number
            THEN 1 ELSE 0)

\* A variant that counts the rows ahead whatever their status.
QueuePositionAnyStatus(P, patient_id) ==
    IF patient_id \notin DOMAIN P \/ P[patient_id].status # "waiting"
    THEN None
    ELSE Cardinality({i \in DOMAIN P :
                        /\ P[i].department = P[patient_id].department
                        /\ P[i].queue_number < P[patient_id].queue_number}) + 1

\* A variant that reports the queue number as the position.
QueuePositionByNumber(P, patient_id) ==
    IF patient_id \notin DOMAIN P \/ P[patient_id].status # "waiting"
    THEN None
    ELSE P[patient_id].queue_number

\* A variant with the comparison of line 87 turned around.
QueuePositionReversed(P, patient_id) ==
    IF patient_id \notin DOMAIN P \/ P[patient_id].status # "waiting"
    THEN None
    ELSE Cardinality({i \in DOMAIN P :
                        /\ P[i].department = P[patient_id].department
                        /\ P[i].status = "waiting"
                        /\ P[i].queue_number > P[patient_id].queue_number}) + 1

get_queue_position(P, patient_id) ==
    IF patient_id \notin DOMAIN P \/ P[patient_id].status # "waiting"
    THEN None
    ELSE AheadUpTo(P, patient_id, Len(P)) + 1

\* A variant that follows the comment of line 98: position times service time.
WaitingTimeByPosition(D, department_name, position) ==
    LET dept == DepartmentByName(D, department_name)
    IN  IF dept = <<>> THEN 0
        ELSE position * dept[1].average_service_time

\* A variant that gives a department the catalog lacks the first row's time.
WaitingTimeDefaultService(D, department_name, position) ==
    LET dept == DepartmentByName(D, department_name)
    IN  IF dept = <<>>
        THEN IF D = <<>> THEN 0 ELSE (position - 1) * D[1].average_service_time
        ELSE (position - 1) * dept[1].average_service_time

calculate_waiting_time(D, department_name, position) ==
    LET dept == DepartmentByName(D, department_name)
    IN  IF dept = <<>> THEN 0
        ELSE (position - 1) * dept[1].average_service_time

\* A variant whose thresholds are exclusive.
CrowdLevelExclusive(count) ==
    IF count < 10 THEN [level |-> "Low", color |-> "success"]
    ELSE IF count < 25 THEN [level |-> "Moderate", color |-> "warning"]
    ELSE [level |-> "High", color |-> "danger"]

get_crowd_level(count) ==
    IF count <= 10 THEN [level |-> "Low", color |-> "success"]
    ELSE IF count <= 25 THEN [level |-> "Moderate", color |-> "warning"]
    ELSE [level |-> "High", color |-> "danger"]

get_hospital_crowd_level(total_count) ==
    IF total_count <= 40 THEN [level |-> "Low", color |-> "success"]
    ELSE IF total_count <= 80 THEN [level |-> "Moderate", color |-> "warning"]
    ELSE [level |-> "High", color |-> "danger"]

(* ------------------------------ responses ----------------------------- *)

\* The reply of a handler: its route, the patient_id it was called with (None
\* for a route without one), the HTTP status and the JSON body.
Reply(op, patient_id, code, body) ==
    [op |-> op, patient_id |-> patient_id, code |-> code, body |-> body]

ErrorBody(error) == [error |-> error]

\* A request thread outside register holds nothing.
NoLocal == [name |-> <<>>, department |-> <<>>, queue_number |-> 0,
            patient_id |-> 0]

(* ------------------------------- state -------------------------------- *)

\* departments, patients: the two tables.  pc, local: where each request
\* thread stands inside register and what it holds.  resp: the reply of the
\* handler that returned last.
Init ==
    /\ departments = <<>>
    /\ patients = <<>>
    /\ pc = [w \in Workers |-> "idle"]
    /\ local = [w \in Workers |-> NoLocal]
    /\ resp = Reply("none", None, 0, ErrorBody(""))

\* app.run() starts after init_db() has created and seeded the tables.
Serving == Len(departments) > 0

\* Registrations that have passed validation and not yet inserted.
Pending == Cardinality({w \in Workers : pc[w] = "insert"})

\* The <int:patient_id> values offered to a route: 0, the ids of the rows and
\* the first id that no row has yet.
PatientIds == 0..(Len(patients) + 1)

\* request.json['patient_id'] can also be absent.
PatientIdInputs == {None} \cup PatientIds

(* ------------------------------ init_db ------------------------------- *)

\* A variant without the check of line 45: it seeds on every call.
InitDbAlways ==
    /\ departments' = departments \o DefaultDepartments
    /\ resp' = Reply("init_db", None, 0,
                     [inserted |-> Len(DefaultDepartments)])
    /\ UNCHANGED <<patients, pc, local>>

init_db ==
    /\ departments' = IF Len(departments) = 0 THEN DefaultDepartments
                      ELSE departments
    /\ resp' = Reply("init_db", None, 0,
                     [inserted |-> IF Len(departments) = 0
                                   THEN Len(DefaultDepartments) ELSE 0])
    /\ UNCHANGED <<patients, pc, local>>

(* ------------------------------ register ------------------------------ *)

\* A variant without the lookup of lines 141-143.
RegisterErrorNoLookup(D, name_in, department_in) ==
    IF strip(name_in) = <<>> \/ strip(department_in) = <<>>
    THEN "Name and department are required"
    ELSE ""

\* Lines 133-143: the checks that end a POST with a 400; "" when it passes.
RegisterError(D, name_in, department_in) ==
    LET name == strip(name_in)
        department == strip(department_in)
    IN  IF name = <<>> \/ department = <<>>
        THEN "Name and department are required"
        ELSE IF DepartmentByName(D, department) = <<>>
        THEN "Invalid department"
        ELSE ""

\* Lines 157-177: the body of the success reply, read from tables D and P.
RegisterBody(D, P, patient_id, department, queue_number) ==
    LET position == get_queue_position(P, patient_id)
        waiting_time == calculate_waiting_time(D, department, position)
        dept_queue_count == WaitingCount(P, department)
    IN  [success |-> TRUE, patient_id |-> patient_id,
         queue_number |-> queue_number, position |-> position,
         waiting_time |-> waiting_time,
         crowd_level |-> get_crowd_level(dept_queue_count)]

\* Lines 157-177 as a reply.  A record that is no longer waiting has position
\* None, and line 99 then subtracts 1 from None: the TypeError ends the request
\* with a 500.
RegisterReply(D, P, patient_id, department, queue_number) ==
    IF get_queue_position(P, patient_id) = None
    THEN Reply("register", None, 500, ErrorBody("TypeError"))
    ELSE Reply("register", None, 200,
               RegisterBody(D, P, patient_id, department, queue_number))

\* Lines 133-146: validation and the read of the next queue number, by the
\* first free request thread.
register_read(w, name_in, department_in) ==
    /\ Serving
    /\ pc[w] = "idle"
    /\ \A v \in Workers : pc[v] = "idle" => w <= v
    /\ LET error == RegisterError(departments, name_in, department_in)
           department == strip(department_in)
       IN  IF error # ""
           THEN /\ resp' = Reply("register", None, 400, ErrorBody(error))
                /\ UNCHANGED <<pc, local>>
           ELSE /\ Len(patients) + Pending < MaxThreaded
                /\ pc' = [pc EXCEPT ![w] = "insert"]
                /\ local' = [local EXCEPT ![w] =
                      [name |-> strip(name_in), department |-> department,
                       queue_number |->
                           get_next_queue_number(patients, department),
                       patient_id |-> 0]]
                /\ UNCHANGED resp
    /\ UNCHANGED <<departments, patients>>

\* A variant that reads the next queue number again in the step that inserts.
RegisterInsertFreshNumber(w) ==
    /\ pc[w] = "insert"
    /\ patients' = Append(patients,
                          Patient(patients, local[w].name, local[w].department,
                                  get_next_queue_number(patients,
                                                        local[w].department)))
    /\ pc' = [pc EXCEPT ![w] = "respond"]
    /\ local' = [local EXCEPT ![w].patient_id = Len(patients) + 1]
    /\ UNCHANGED <<departments, resp>>

\* Lines 147-154: the insert and its commit.
register_insert(w) ==
    /\ pc[w] = "insert"
    /\ patients' = Append(patients,
                          Patient(patients, local[w].name, local[w].department,
                                  local[w].queue_number))
    /\ pc' = [pc EXCEPT ![w] = "respond"]
    /\ local' = [local EXCEPT ![w].patient_id = Len(patients) + 1]
    /\ UNCHANGED <<departments, resp>>

\* Lines 157-177: position, waiting time and crowd level, read after the commit.
register_respond(w) ==
    /\ pc[w] = "respond"
    /\ resp' = RegisterReply(departments, patients, local[w].patient_id,
                             local[w].department, local[w].queue_number)
    /\ pc' = [pc EXCEPT ![w] = "idle"]
    /\ local' = [local EXCEPT ![w] = NoLocal]
    /\ UNCHANGED <<departments, patients>>

\* The whole POST handler run without another request in between.
register(name_in, department_in) ==
    /\ Serving
    /\ \A w \in Workers : pc[w] = "idle"
    /\ LET error == RegisterError(departments, name_in, department_in)
           department == strip(department_in)
           queue_number == get_next_queue_number(patients, department)
           patient == Patient(patients, strip(name_in), department, queue_number)
       IN  IF error # ""
           THEN /\ resp' = Reply("register", None, 400, ErrorBody(error))
                /\ UNCHANGED patients
           ELSE /\ Len(patients) < MaxPatients
                /\ patients' = Append(patients, patient)
                /\ resp' = RegisterReply(departments, patients', patient.id,
                                         department, queue_number)
    /\ UNCHANGED <<departments, pc, local>>

(* --------------------------- patient_status --------------------------- *)

patient_status_api(patient_id) ==
    /\ Serving
    /\ IF patient_id \notin DOMAIN patients
       THEN resp' = Reply("patient_status", patient_id, 404, ErrorBody("Not Found"))
       ELSE LET patient == patients[patient_id]
                position == IF patient.status = "served" THEN 0
                            ELSE get_queue_position(patients, patient_id)
                waiting_time ==
                    IF patient.status = "served" THEN 0
                    ELSE IF position # None /\ position # 0
                    THEN calculate_waiting_time(departments,
                                                patient.department, position)
                    ELSE 0
                crowd_level ==
                    get_crowd_level(WaitingCount(patients, patient.department))
            IN  resp' = Reply("patient_status", patient_id, 200,
                    [name |-> patient.name, department |-> patient.department,
                     queue_number |-> patient.queue_number,
                     position |-> position, waiting_time |-> waiting_time,
                     status |-> patient.status,
                     crowd_level |-> crowd_level.level,
                     crowd_color |-> crowd_level.color])
    /\ UNCHANGED <<departments, patients, pc, local>>

(* -------------------------- department_status ------------------------ *)

\* Lines 215-235: one entry per catalog row, in catalog order.  The average
\* waiting time, service time times half the count rounded to one decimal, is
\* held in tenths of a minute.
DepartmentStatusBody(D, P) ==
    [k \in DOMAIN D |->
        LET dept == D[k]
            queue_count == WaitingCount(P, dept.name)
            crowd_level == get_crowd_level(queue_count)
        IN  [name |-> dept.name,
             queue_count |-> queue_count,
             average_service_time |-> dept.average_service_time,
             avg_waiting_time_tenths |->
                 IF queue_count > 0
                 THEN dept.average_service_time * queue_count * 5 ELSE 0,
             crowd_level |-> crowd_level.level,
             crowd_color |-> crowd_level.color]]

department_status ==
    /\ Serving
    /\ resp' = Reply("department_status", None, 200,
                     DepartmentStatusBody(departments, patients))
    /\ UNCHANGED <<departments, patients, pc, local>>

(* -------------------------- hospital_overview ------------------------- *)

\* Patient.query.filter_by(status=...).count(), counted row by row.
RECURSIVE StatusCountUpTo(_, _, _)
StatusCountUpTo(P, status, n) ==
    IF n = 0 THEN 0
    ELSE StatusCountUpTo(P, status, n - 1)
         + (IF P[n].status = status THEN 1 ELSE 0)

\* A variant whose total_patients is the number of rows of the table.
HospitalOverviewAllRows(P) ==
    LET total_waiting == StatusCountUpTo(P, "waiting", Len(P))
        total_served == StatusCountUpTo(P, "served", Len(P))
        hospital_crowd == get_hospital_crowd_level(total_waiting)
    IN  [total_waiting |-> total_waiting,
         total_served |-> total_served,
         total_patients |-> Len(P),
         crowd_level |-> hospital_crowd.level,
         crowd_color |-> hospital_crowd.color]

\* Lines 242-254.
HospitalOverviewBody(P) ==
    LET total_waiting == StatusCountUpTo(P, "waiting", Len(P))
        total_served == StatusCountUpTo(P, "served", Len(P))
        hospital_crowd == get_hospital_crowd_level(total_waiting)
    IN  [total_waiting |-> total_waiting,
         total_served |-> total_served,
         total_patients |-> total_waiting + total_served,
         crowd_level |-> hospital_crowd.level,
         crowd_color |-> hospital_crowd.color]

hospital_overview ==
    /\ Serving
    /\ resp' = Reply("hospital_overview", None, 200,
                     HospitalOverviewBody(patients))
    /\ UNCHANGED <<departments, patients, pc, local>>

(* ----------------------------- leave_queue ---------------------------- *)

\* Python's "not patient_id": None and 0 are both false.
Falsy(patient_id) == patient_id = None \/ patient_id = 0

\* A variant that replies success without committing the new status.
LeaveQueueNoCommit(patient_id) ==
    /\ Serving
    /\ IF Falsy(patient_id)
       THEN resp' = Reply("leave_queue", patient_id, 400,
                          ErrorBody("Patient ID required"))
       ELSE IF patient_id \notin DOMAIN patients
       THEN resp' = Reply("leave_queue", patient_id, 404,
                          ErrorBody("Patient not found"))
       ELSE IF patients[patient_id].status # "waiting"
       THEN resp' = Reply("leave_queue", patient_id, 400,
                          ErrorBody("Patient is not in queue"))
       ELSE resp' = Reply("leave_queue", patient_id, 200, [success |-> TRUE])
    /\ UNCHANGED <<departments, patients, pc, local>>

\* A variant without the check of lines 298-299, as mark_served is written.
LeaveQueueUnchecked(patient_id) ==
    /\ Serving
    /\ IF Falsy(patient_id)
       THEN /\ resp' = Reply("leave_queue", patient_id, 400,
                             ErrorBody("Patient ID required"))
            /\ UNCHANGED patients
       ELSE IF patient_id \notin DOMAIN patients
       THEN /\ resp' = Reply("leave_queue", patient_id, 404,
                             ErrorBody("Patient not found"))
            /\ UNCHANGED patients
       ELSE /\ patients' = [patients EXCEPT ![patient_id].status = "cancelled"]
            /\ resp' = Reply("leave_queue", patient_id, 200, [success |-> TRUE])
    /\ UNCHANGED <<departments, pc, local>>

leave_queue(patient_id) ==
    /\ Serving
    /\ IF Falsy(patient_id)
       THEN /\ resp' = Reply("leave_queue", patient_id, 400,
                             ErrorBody("Patient ID required"))
            /\ UNCHANGED patients
       ELSE IF patient_id \notin DOMAIN patients
       THEN /\ resp' = Reply("leave_queue", patient_id, 404,
                             ErrorBody("Patient not found"))
            /\ UNCHANGED patients
       ELSE IF patients[patient_id].status # "waiting"
       THEN /\ resp' = Reply("leave_queue", patient_id, 400,
                             ErrorBody("Patient is not in queue"))
            /\ UNCHANGED patients
       ELSE /\ patients' = [patients EXCEPT ![patient_id].status = "cancelled"]
            /\ resp' = Reply("leave_queue", patient_id, 200, [success |-> TRUE])
    /\ UNCHANGED <<departments, pc, local>>

(* ----------------------------- mark_served ---------------------------- *)

\* A variant that also gives up the served record's queue number.
MarkServedClearsNumber(patient_id) ==
    /\ Serving
    /\ IF Falsy(patient_id)
       THEN /\ resp' = Reply("mark_served", patient_id, 400,
                             ErrorBody("Patient ID required"))
            /\ UNCHANGED patients
       ELSE IF patient_id \notin DOMAIN patients
       THEN /\ resp' = Reply("mark_served", patient_id, 404,
                             ErrorBody("Patient not found"))
            /\ UNCHANGED patients
       ELSE /\ patients' = [patients EXCEPT ![patient_id].status = "served",
                                            ![patient_id].queue_number = 0]
            /\ resp' = Reply("mark_served", patient_id, 200, [success |-> TRUE])
    /\ UNCHANGED <<departments, pc, local>>

mark_served(patient_id) ==
    /\ Serving
    /\ IF Falsy(patient_id)
       THEN /\ resp' = Reply("mark_served", patient_id, 400,
                             ErrorBody("Patient ID required"))
            /\ UNCHANGED patients
       ELSE IF patient_id \notin DOMAIN patients
       THEN /\ resp' = Reply("mark_served", patient_id, 404,
                             ErrorBody("Patient not found"))
            /\ UNCHANGED patients
       ELSE /\ patients' = [patients EXCEPT ![patient_id].status = "served"]
            /\ resp' = Reply("mark_served", patient_id, 200, [success |-> TRUE])
    /\ UNCHANGED <<departments, pc, local>>

(* --------------------------- specifications --------------------------- *)

RegisterRead == \E w \in Workers, name_in \in NameInputs,
                   department_in \in DepartmentInputs :
                    register_read(w, name_in, department_in)

RegisterInsert == \E w \in Workers : register_insert(w)

RegisterRespond == \E w \in Workers : register_respond(w)

Register == \E name_in \in NameInputs, department_in \in DepartmentInputs :
                register(name_in, department_in)

PatientStatus == \E patient_id \in PatientIds :
                     patient_status_api(patient_id)

LeaveQueue == \E patient_id \in PatientIdInputs : leave_queue(patient_id)

MarkServed == \E patient_id \in PatientIdInputs : mark_served(patient_id)

\* The threaded server: requests interleave inside register.
Next ==
    \/ init_db
    \/ RegisterRead
    \/ RegisterInsert
    \/ RegisterRespond
    \/ PatientStatus
    \/ LeaveQueue
    \/ MarkServed
    \/ department_status
    \/ hospital_overview

Spec == Init /\ [][Next]_vars

\* One request at a time: every handler runs from start to end.
NextSeq ==
    \/ init_db
    \/ Register
    \/ PatientStatus
    \/ LeaveQueue
    \/ MarkServed
    \/ department_status
    \/ hospital_overview

SpecSeq == Init /\ [][NextSeq]_vars

\* One request at a time, in a run where nobody cancels: no leave_queue call.
NextNoLeave ==
    \/ init_db
    \/ Register
    \/ PatientStatus
    \/ MarkServed
    \/ department_status
    \/ hospital_overview

SpecNoLeave == Init /\ [][NextNoLeave]_vars

\* The crowd level functions on their own, applied to every count up to
\* MaxCount.
crowd_level_of(count) ==
    /\ resp' = Reply("get_crowd_level", None, 0,
                     [count |-> count, result |-> get_crowd_level(count)])
    /\ UNCHANGED <<departments, patients, pc, local>>

hospital_crowd_level_of(total_count) ==
    /\ resp' = Reply("get_hospital_crowd_level", None, 0,
                     [count |-> total_count,
                      result |-> get_hospital_crowd_level(total_count)])
    /\ UNCHANGED <<departments, patients, pc, local>>

NextCrowd ==
    \/ \E count \in 0..MaxCount : crowd_level_of(count)
    \/ \E total_count \in 0..MaxCount : hospital_crowd_level_of(total_count)

SpecCrowd == Init /\ [][NextCrowd]_vars

(* ------------------------------- claims ------------------------------ *)

Terminal == {"served", "cancelled"}

\* C1: a new record starts 'waiting', and once a record's status is 'served'
\* or 'cancelled' no later step changes that record's status.
C1_TerminalStatus ==
    [][/\ \A i \in DOMAIN patients' \ DOMAIN patients :
              patients'[i].status = "waiting"
       /\ \A i \in DOMAIN patients :
              patients[i].status \in Terminal
                  => patients'[i].status = patients[i].status]_vars

\* C2: mark_served on an existing record that is not 'waiting' replies 400
\* and leaves the record's status as it was.
C2_MarkServedRejectsNotWaiting ==
    [][\A patient_id \in PatientIds :
          (/\ patient_id \in DOMAIN patients
           /\ patients[patient_id].status # "waiting"
           /\ mark_served(patient_id))
          => /\ resp'.code = 400
             /\ patients'[patient_id].status = patients[patient_id].status]_vars

\* C3: no two records of one department hold the same queue_number,
\* whatever the status of the earlier one.
C3_QueueNumberNeverReused ==
    \A i, j \in DOMAIN patients :
        (i < j /\ patients[i].department = patients[j].department)
            => patients[i].queue_number # patients[j].queue_number

\* Rows i and j of P are both waiting in one department.
WaitingTogether(P, i, j) ==
    /\ P[i].status = "waiting"
    /\ P[j].status = "waiting"
    /\ P[i].department = P[j].department

\* C4: with one request at a time, the waiting records of a department have
\* queue numbers that strictly increase in creation order (so are distinct).
C4_WaitingNumbersIncrease ==
    \A i, j \in DOMAIN patients :
        (/\ i # j
         /\ WaitingTogether(patients, i, j)
         /\ patients[i].timestamp <= patients[j].timestamp)
            => patients[i].queue_number < patients[j].queue_number

\* C4 witness: two records wait in one department, the earlier of them holding
\* a number that a served or cancelled record of the department held before.
C4_Witness ==
    \E i, j, k \in DOMAIN patients :
        /\ k < i /\ i < j
        /\ WaitingTogether(patients, i, j)
        /\ patients[k].department = patients[i].department
        /\ patients[k].status \in Terminal
        /\ patients[k].queue_number = patients[i].queue_number

\* Two waiting rows of one department hold the same queue_number.
DuplicateWaiting(P) ==
    \E i, j \in DOMAIN P :
        /\ i # j
        /\ WaitingTogether(P, i, j)
        /\ P[i].queue_number = P[j].queue_number

\* C5: when a registration inserts the queue number it read while another
\* registration, which read the same number for the same department, has
\* inserted in between and still waits, two waiting records of the department
\* hold the same queue_number.
C5_StaleReadDuplicates ==
    [][\A w, v \in Workers :
          (/\ w # v
           /\ pc[w] = "insert"
           /\ pc[v] = "respond"
           /\ local[v].department = local[w].department
           /\ local[v].queue_number = local[w].queue_number
           /\ patients[local[v].patient_id].status = "waiting"
           /\ register_insert(w))
          => DuplicateWaiting(patients')]_vars

\* C5 witness: both registrations have inserted before either replied, and
\* their two waiting records hold the same queue_number.
C5_Witness ==
    /\ \A w \in Workers : pc[w] = "respond"
    /\ local[1].patient_id # local[2].patient_id
    /\ WaitingTogether(patients, local[1].patient_id, local[2].patient_id)
    /\ patients[local[1].patient_id].queue_number
           = patients[local[2].patient_id].queue_number

DepartmentNames == {departments[i].name : i \in DOMAIN departments}

\* The records registered for department d, whatever their status.
Registered(d) == {i \in DOMAIN patients : patients[i].department = d}

\* C6: in a run without cancellations (SpecNoLeave), the next queue number of
\* every department is the number of its registrations so far plus one.
C6_NextNumberCountsRegistrations ==
    \A d \in DepartmentNames :
        get_next_queue_number(patients, d) = Cardinality(Registered(d)) + 1

\* The waiting records of row patient_id's department with a smaller number.
Ahead(P, patient_id) ==
    {i \in DOMAIN P : /\ P[i].department = P[patient_id].department
                      /\ P[i].status = "waiting"
                      /\ P[i].queue_number < P[patient_id].queue_number}

\* The queue of row patient_id's department: its waiting rows and no others.
QueueOf(P, patient_id) ==
    LET InQueue(r) == /\ r.department = P[patient_id].department
                      /\ r.status = "waiting"
    IN  SelectSeq(P, InQueue)

\* How many rows of that queue hold a smaller number than row patient_id.
SmallerInQueue(P, patient_id) ==
    LET queue == QueueOf(P, patient_id)
    IN  Cardinality({k \in DOMAIN queue :
                        queue[k].queue_number < P[patient_id].queue_number})

\* C7: get_queue_position is null for an unknown id and for a record that is
\* not waiting; otherwise it is 1 plus the number of waiting records of the
\* same department with a strictly smaller queue_number, and stays the same
\* when the served, cancelled and other-department rows are taken out of the
\* count.
C7_QueuePosition ==
    \A patient_id \in PatientIds :
        LET position == get_queue_position(patients, patient_id)
        IN  IF patient_id \notin DOMAIN patients
            THEN position = None
            ELSE IF patients[patient_id].status # "waiting"
            THEN position = None
            ELSE /\ position = 1 + Cardinality(Ahead(patients, patient_id))
                 /\ position = 1 + SmallerInQueue(patients, patient_id)

\* C7 witness: a poll of a waiting record reports position 1 while a served or
\* cancelled record of its department holds a smaller queue_number.
C7_Witness ==
    /\ resp.op = "patient_status"
    /\ resp.code = 200
    /\ resp.body.status = "waiting"
    /\ resp.body.position = 1
    /\ \E i \in DOMAIN patients :
          /\ patients[i].department = resp.body.department
          /\ patients[i].status \in Terminal
          /\ patients[i].queue_number < resp.body.queue_number

\* The catalog's service time of department d, as init_db seeds it.
ServiceTime(d) ==
    LET i == CHOOSE i \in DOMAIN DefaultDepartments :
                 DefaultDepartments[i].name = d
    IN  DefaultDepartments[i].average_service_time

WaitOf(P, j) ==
    calculate_waiting_time(departments, P[j].department, get_queue_position(P, j))

\* C9: a successful leave_queue of waiting record A moves every waiting record
\* of A's department with a larger queue_number up by one position and cuts
\* its wait by the department's service time; the waiting records ahead of A
\* and those of other departments keep their position.
C9_LeaveMovesQueueUp ==
    [][\A a \in PatientIds :
          (/\ a \in DOMAIN patients
           /\ patients[a].status = "waiting"
           /\ leave_queue(a))
          => /\ resp'.code = 200
             /\ \A j \in DOMAIN patients \ {a} :
                   patients[j].status = "waiting"
                   => LET before == get_queue_position(patients, j)
                          after == get_queue_position(patients', j)
                      IN  IF patients[j].department # patients[a].department
                          THEN after = before
                          ELSE IF patients[j].queue_number > patients[a].queue_number
                          THEN /\ after = before - 1
                               /\ WaitOf(patients', j)
                                     = WaitOf(patients, j)
                                       - ServiceTime(patients[a].department)
                          ELSE IF patients[j].queue_number < patients[a].queue_number
                          THEN after = before
                          ELSE TRUE]_vars

\* C9 witness: a record has just left the queue while another record of its
\* department waits behind it.
C9_Witness ==
    /\ resp.op = "leave_queue"
    /\ resp.code = 200
    /\ \E j \in DOMAIN patients :
          /\ patients[j].status = "waiting"
          /\ patients[j].department = patients[resp.patient_id].department
          /\ patients[j].queue_number > patients[resp.patient_id].queue_number

\* C10 as claimed: 400 for a missing patient_id, 404 for an id no record has,
\* 400 for a record that is not waiting, none of them changing a record, and
\* success with status 'cancelled' only for a waiting record.
C10_LeaveQueueReplies ==
    [][\A patient_id \in PatientIdInputs :
          leave_queue(patient_id)
          => IF patient_id = None
             THEN resp'.code = 400 /\ patients' = patients
             ELSE IF patient_id \notin DOMAIN patients
             THEN resp'.code = 404 /\ patients' = patients
             ELSE IF patients[patient_id].status # "waiting"
             THEN resp'.code = 400 /\ patients' = patients
             ELSE /\ resp'.code = 200
                  /\ patients' = [patients EXCEPT
                                     ![patient_id].status = "cancelled"]]_vars

\* C10 amended: 400 for a patient_id that is missing or 0, 404 for any other
\* id no record has, 400 for a record that is not waiting, none of them
\* changing a record, and success with status 'cancelled' only for a waiting
\* record.
C10_LeaveQueueRepliesFalsy ==
    [][\A patient_id \in PatientIdInputs :
          leave_queue(patient_id)
          => IF patient_id = None \/ patient_id = 0
             THEN resp'.code = 400 /\ patients' = patients
             ELSE IF patient_id \notin DOMAIN patients
             THEN resp'.code = 404 /\ patients' = patients
             ELSE IF patients[patient_id].status # "waiting"
             THEN resp'.code = 400 /\ patients' = patients
             ELSE /\ resp'.code = 200
                  /\ patients' = [patients EXCEPT
                                     ![patient_id].status = "cancelled"]]_vars

\* C10 witness: leave_queue has refused a record that is served or cancelled,
\* and the record is still so.
C10_Witness ==
    /\ resp.op = "leave_queue"
    /\ resp.code = 400
    /\ resp.patient_id \in DOMAIN patients
    /\ patients[resp.patient_id].status \in Terminal

\* Every symbol of string s is whitespace (so s is empty after trimming).
Blank(s) == \A k \in DOMAIN s : s[k] = WS

\* String s is string c with whitespace, and nothing else, around it.
Padded(s, c) ==
    \E a, b \in 0..Len(s) :
        /\ a + Len(c) + b = Len(s)
        /\ \A k \in 1..a : s[k] = WS
        /\ \A k \in (Len(s) - b + 1)..Len(s) : s[k] = WS
        /\ SubSeq(s, a + 1, a + Len(c)) = c

\* The form values that line 138 or line 143 must refuse.
Refused(name_in, department_in) ==
    \/ Blank(name_in)
    \/ Blank(department_in)
    \/ \A d \in DepartmentNames : ~Padded(department_in, d)

\* C11: a register POST whose name or department is empty after trimming, or
\* whose department is no name of the catalog, replies 400 and creates no
\* record; every record refers to a department of the catalog.
C11_RegisterValidates ==
    [][/\ \A name_in \in NameInputs, department_in \in DepartmentInputs :
              (/\ Refused(name_in, department_in)
               /\ \/ register(name_in, department_in)
                  \/ \E w \in Workers : register_read(w, name_in, department_in))
              => /\ resp'.op = "register"
                 /\ resp'.code = 400
                 /\ patients' = patients
                 /\ pc' = pc
       /\ \A i \in DOMAIN patients' :
              \E k \in DOMAIN departments' :
                  departments'[k].name = patients'[i].department]_vars

\* C11 witness: a POST for a department the catalog does not have was refused
\* with "Invalid department" while records of catalog departments exist.
C11_Witness ==
    /\ resp.op = "register"
    /\ resp.code = 400
    /\ resp.body.error = "Invalid department"
    /\ patients # <<>>

\* The color the claim gives each level.
ColorOf(level) ==
    CASE level = "Low" -> "success"
      [] level = "Moderate" -> "warning"
      [] level = "High" -> "danger"

\* C12: get_crowd_level is Low up to 10, Moderate from 11 to 25 and High from
\* 26; get_hospital_crowd_level is Low up to 40, Moderate from 41 to 80 and
\* High from 81; Low, Moderate, High carry success, warning, danger.
C12_CrowdLevels ==
    /\ resp.op = "get_crowd_level"
          => LET count == resp.body.count
                 level == resp.body.result.level
             IN  /\ count <= 10 => level = "Low"
                 /\ (11 <= count /\ count <= 25) => level = "Moderate"
                 /\ count >= 26 => level = "High"
                 /\ level \in {"Low", "Moderate", "High"}
                 /\ resp.body.result.color = ColorOf(level)
    /\ resp.op = "get_hospital_crowd_level"
          => LET total == resp.body.count
                 level == resp.body.result.level
             IN  /\ total <= 40 => level = "Low"
                 /\ (41 <= total /\ total <= 80) => level = "Moderate"
                 /\ total >= 81 => level = "High"
                 /\ level \in {"Low", "Moderate", "High"}
                 /\ resp.body.result.color = ColorOf(level)

\* C12 witness: the hospital level of 81 waiting patients is High, in danger
\* color.
C12_Witness ==
    /\ resp.op = "get_hospital_crowd_level"
    /\ resp.body.count = 81
    /\ resp.body.result = [level |-> "High", color |-> "danger"]

\* Department names to ask about: the seeded ones and one the catalog lacks.
AnyDepartmentNames ==
    {DefaultDepartments[i].name : i \in DOMAIN DefaultDepartments}
        \cup {<<"Cardiology">>}

FiveDefaults ==
    { <<"Doctor Consultation", 15>>, <<"Pharmacy / Medicine Pickup", 5>>,
      <<"Blood Test / Laboratory", 10>>,
      <<"Radiology / Scanning (X-ray, MRI, CT)", 20>>,
      <<"Medical Report Collection", 3>> }

\* Catalog D holds exactly the five default departments, each name once.
ExactlyFiveDefaults(D) ==
    /\ Len(D) = 5
    /\ {<<D[k].name[1], D[k].average_service_time>> : k \in DOMAIN D}
          = FiveDefaults
    /\ \A k \in DOMAIN D : Len(D[k].name) = 1
    /\ \A k, m \in DOMAIN D : D[k].name = D[m].name => k = m

\* C14: init_db on an empty catalog inserts exactly the five defaults; on a
\* non-empty catalog it changes nothing; so after any number of calls the
\* catalog holds exactly the five defaults, each name once.
C14_InitDbIdempotent ==
    [][/\ init_db
          => /\ departments = <<>> => ExactlyFiveDefaults(departments')
             /\ departments # <<>> => departments' = departments
             /\ patients' = patients
       /\ departments' = <<>> \/ ExactlyFiveDefaults(departments')]_vars

\* C14 witness: init_db has run on the seeded catalog and inserted nothing.
C14_Witness ==
    /\ resp.op = "init_db"
    /\ resp.body.inserted = 0
    /\ ExactlyFiveDefaults(departments)

\* Rows r and q agree in every column but status.
SameButStatus(r, q) ==
    /\ r.id = q.id
    /\ r.name = q.name
    /\ r.department = q.department
    /\ r.queue_number = q.queue_number
    /\ r.timestamp = q.timestamp

\* C15: a successful leave_queue or mark_served changes nothing but the status
\* of the record it names: the other columns of that record, all other
\* records and the catalog stay as they were; no step ever changes the
\* department or queue_number of an existing record.
C15_OnlyStatusChanges ==
    [][/\ \A patient_id \in PatientIdInputs :
              (/\ leave_queue(patient_id) \/ mark_served(patient_id)
               /\ resp'.code = 200)
              => /\ departments' = departments
                 /\ DOMAIN patients' = DOMAIN patients
                 /\ SameButStatus(patients'[patient_id], patients[patient_id])
                 /\ patients'[patient_id].status
                        = IF resp'.op = "leave_queue" THEN "cancelled"
                          ELSE "served"
                 /\ \A j \in DOMAIN patients \ {patient_id} :
                        patients'[j] = patients[j]
       /\ \A j \in DOMAIN patients :
              /\ j \in DOMAIN patients'
              /\ patients'[j].department = patients[j].department
              /\ patients'[j].queue_number = patients[j].queue_number]_vars

\* C15 witness: a record has just been marked served while another record is
\* in the table.
C15_Witness ==
    /\ resp.op = "mark_served"
    /\ resp.code = 200
    /\ patients[resp.patient_id].status = "served"
    /\ Len(patients) >= 2

\* The waiting records of department d in table P.
WaitingIn(P, d) ==
    {i \in DOMAIN P : P[i].department = d /\ P[i].status = "waiting"}

\* C16: with one request at a time, the positions of the k waiting records of
\* a department are exactly 1..k, each held by one record.
C16_PositionsAreOneToK ==
    \A d \in DepartmentNames :
        LET waiting == WaitingIn(patients, d)
        IN  /\ {get_queue_position(patients, i) : i \in waiting}
                  = 1..Cardinality(waiting)
            /\ \A i, j \in waiting :
                  get_queue_position(patients, i) = get_queue_position(patients, j)
                      => i = j

\* C16 witness: two records wait in a department at positions 1 and 2 although
\* their queue numbers are not 1 and 2.
C16_Witness ==
    \E i, j \in DOMAIN patients :
        /\ i # j
        /\ WaitingTogether(patients, i, j)
        /\ get_queue_position(patients, i) = 1
        /\ get_queue_position(patients, j) = 2
        /\ patients[j].queue_number > 2

\* C17: with one request at a time, no step makes the position of a record
\* that stays waiting larger, and no step swaps the order of two records that
\* stay waiting in one department.
C17_PositionNeverIncreases ==
    [][/\ \A i \in DOMAIN patients :
              (patients[i].status = "waiting" /\ patients'[i].status = "waiting")
              => get_queue_position(patients', i)
                    <= get_queue_position(patients, i)
       /\ \A i, j \in DOMAIN patients :
              (/\ WaitingTogether(patients, i, j)
               /\ WaitingTogether(patients', i, j)
               /\ get_queue_position(patients, i)
                     < get_queue_position(patients, j))
              => get_queue_position(patients', i)
                    < get_queue_position(patients', j)]_vars

\* C17 witness: a record has been served and a record that was behind it in
\* the same department waits at position 1, ahead of another waiting record.
C17_Witness ==
    /\ resp.op = "mark_served"
    /\ resp.code = 200
    /\ \E i, j \in DOMAIN patients :
          /\ WaitingTogether(patients, i, j)
          /\ patients[i].department = patients[resp.patient_id].department
          /\ patients[i].queue_number > patients[resp.patient_id].queue_number
          /\ get_queue_position(patients, i) = 1
          /\ get_queue_position(patients, j) = 2

\* The sum of queue_count over the first n entries of a department_status
\* reply.
RECURSIVE QueueCountSum(_, _)
QueueCountSum(entries, n) ==
    IF n = 0 THEN 0 ELSE QueueCountSum(entries, n - 1) + entries[n].queue_count

\* C18: total_waiting of hospital_overview is the sum of queue_count over the
\* departments of department_status, and total_patients is total_waiting plus
\* total_served, the number of records that are not cancelled.
C18_TotalsAgree ==
    Serving =>
        LET overview == HospitalOverviewBody(patients)
            entries == DepartmentStatusBody(departments, patients)
            cancelled == {i \in DOMAIN patients : patients[i].status = "cancelled"}
        IN  /\ overview.total_waiting = QueueCountSum(entries, Len(entries))
            /\ overview.total_patients
                  = overview.total_waiting + overview.total_served
            /\ overview.total_patients = Len(patients) - Cardinality(cancelled)

\* C18 witness: hospital_overview reports one waiting patient and one patient
\* in total while the table holds a second, cancelled record.
C18_Witness ==
    /\ resp.op = "hospital_overview"
    /\ resp.body.total_waiting = 1
    /\ resp.body.total_patients = 1
    /\ \E i \in DOMAIN patients : patients[i].status = "cancelled"

====
